---- MODULE Spec2Model ----
(***************************************************************************)
(* Order fulfilment and payment reconciliation core of the 2Square         *)
(* backend (services/order.service.ts, services/payment.service.ts, the    *)
(* cart and product services and the PostgreSQL schema they run on).       *)
(*                                                                         *)
(* Every `await query(...)` of a service method is one storage step, and   *)
(* one action of this module: node-postgres runs each statement in its own *)
(* implicit transaction on a pooled connection, and no service method      *)
(* opens a transaction, so other requests interleave between any two       *)
(* statements of a method.  The synchronous code between two awaits is     *)
(* folded into the step that precedes it.                                  *)
(*                                                                         *)
(* Money is held in cents (DECIMAL(10,2) columns).                         *)
(***************************************************************************)
EXTENDS Integers, Sequences, FiniteSets, TLC

VARIABLES
    products,     \* products table: product id -> [price, stock_quantity]
    cart,         \* cart table: user id -> product id -> quantity (0: no row)
    orders,       \* orders table: sequence of rows, the index is the row id
    order_items,  \* order_items table: set of rows
    coupons,      \* coupons table: code -> [usage_limit, used_count]
    payments,     \* payments table: sequence of rows, the index is the row id
    intents,      \* the processor's payment intents, the index is the intent id
    refunds,      \* the processor's refunds: sequence of refunded intent ids
    calls,        \* createOrderFromCart requests: call id -> local state
    pays,         \* payment requests: request id -> local state
    redeems,      \* coupon requests: request id -> local state
    requests,     \* order requests: call id -> the body the client sends
    adds,         \* cart requests (addItem, updateItem): request id -> local state
    gets,         \* GET requests of the order routes: request id -> local state
    cache,        \* the response cache: key (the request URL) -> cached body
    statusReply,  \* the PUT /api/orders/:id/status request: its local state
    added,        \* history: user id -> product id -> total quantity of the
                  \* addItem calls that returned a cart row
    decremented,  \* history: product id -> total quantity subtracted by checkouts
    env           \* history: steps taken so far by the operations around checkout

vars == <<products, cart, orders, order_items, coupons, payments, intents,
          refunds, calls, pays, redeems, requests, adds, gets, cache,
          statusReply, added, decremented, env>>

\* the tables a checkout can see
db == <<products, cart, orders, order_items, coupons>>

\* the state owned by the payment operations
paystate == <<payments, intents, refunds, pays>>

\* the state owned by the order builder and the operations around it
shopstate == <<products, cart, order_items, coupons, calls, decremented>>

\* the cart requests, the GET requests and the last status response
cartstate == <<adds, added>>
viewstate == <<gets, statusReply>>

\* the coupon requests and the bodies of the order requests, and the state of
\* the routes around the order builder
reqstate == <<redeems, requests, cartstate, viewstate, cache>>

----------------------------------------------------------------------------
(* Bounds of the model *)

MaxStock == 2     \* largest stock_quantity the seed or a catalog edit sets
MaxQty == 2       \* largest quantity of a cart row
MaxPayments == 2  \* payment intents created in one behaviour
MaxWrites == 2    \* updates of one payments or orders row that are followed
MaxUsed == 2      \* largest used_count a redemption is followed to
MaxEnv == 1       \* catalog edits, cart removals, coupon redemptions and
                  \* failed statements interleaved in one behaviour

Users == {"u1", "u2", "u3"}
Products == {"A", "B"}
Calls == {"c1", "c2", "c3"}
Codes == {"SAVE10"}
Pays == {"p1", "p2"}
Redeems == {"r1", "r2"}

\* the user whose requests a call slot carries
CallerOf == [c \in Calls |-> CASE c = "c1" -> "u1" [] c = "c2" -> "u2" [] OTHER -> "u3"]

\* prices in cents; 1000 is the 10.00 of the scenarios
Prices == {250, 1000}

NoRows == [p \in Products |-> 0]

----------------------------------------------------------------------------
(* Helpers *)

\* all orders in which the rows of a set can be returned by a SELECT
\* that has no ORDER BY
Orderings(S) ==
    {s \in [1..Cardinality(S) -> S] : \A i, j \in DOMAIN s : i # j => s[i] # s[j]}

Range(s) == {s[i] : i \in DOMAIN s}

----------------------------------------------------------------------------
(* Number conversions.  pg returns a DECIMAL column as a string; parseFloat *)
(* turns it into a double, and the driver writes a double back as its      *)
(* shortest decimal text, which PostgreSQL rounds to the column's scale.   *)
(* A double is held here in units of 1/FloatScale cent; a product or sum   *)
(* of doubles is off from the exact value by at most one such unit (the    *)
(* true error, below 1e-7 cent for amounts a DECIMAL(10,2) can hold, is    *)
(* far smaller).                                                           *)

FloatScale == 1000

FloatErr == {-1, 0, 1}

\* parseFloat of a DECIMAL(10,2) text: the nearest double
ParseFloat(cents) == cents * FloatScale

\* a double written to a DECIMAL(10,2) column: rounded half away from zero
ToDecimal2(x) ==
    IF x >= 0 THEN (2 * x + FloatScale) \div (2 * FloatScale)
    ELSE -((2 * (-x) + FloatScale) \div (2 * FloatScale))

----------------------------------------------------------------------------
(* Payment requests: the local state of one request *)

IdlePay ==
    [pc |-> "idle", op |-> "none", orderId |-> 0, amount |-> 0, intentId |-> 0,
     piStatus |-> "none", paymentId |-> 0, outcome |-> "none"]

----------------------------------------------------------------------------
(* The response cache (middleware/cache.ts) and the requests of the cart   *)
(* and order routes                                                        *)

Admins == {"admin"}

\* req.originalUrl of the GET requests of the order routes
Urls == {"/api/orders", "/api/orders/1"}

\* a response body: its kind and the ids of the orders it holds; NoEntry is
\* the undefined that cache.get returns for a missing or expired key
NoEntry == [kind |-> "none", ids |-> {}]

\* the order id of a /api/orders/:id URL, 0 for the list URL
IdOfUrl(url) == IF url = "/api/orders/1" THEN 1 ELSE 0

\* new RegExp(pattern).test(key), for the patterns the order routes pass: an
\* unanchored pattern matches every key that contains it
Matches(pattern, key) ==
    \/ pattern = "/api/orders"
    \/ pattern = key

\* clearCache(pattern): delete every key the pattern matches
ClearCache(pattern) ==
    [key \in Urls |-> IF Matches(pattern, key) THEN NoEntry ELSE cache[key]]

IdleAdd ==
    [pc |-> "idle", op |-> "none", userId |-> "none", productId |-> "none",
     quantity |-> 0, stock |-> 0, existing |-> 0, outcome |-> "none"]

IdleGet ==
    [pc |-> "idle", userId |-> "none", url |-> "none", order |-> 0,
     body |-> NoEntry, hit |-> FALSE]

NoReply == [pc |-> "idle", orderId |-> 0, status |-> "none", outcome |-> "none"]

Adds == {"a1", "a2"}
Gets == {"g1", "g2"}

\* no request of the cart and order routes under way, nothing cached; the
\* cart rows are those that addItem calls have left
InitRoutes ==
    /\ adds = [a \in Adds |-> IdleAdd]
    /\ gets = [g \in Gets |-> IdleGet]
    /\ cache = [key \in Urls |-> NoEntry]
    /\ statusReply = NoReply
    /\ added = cart

----------------------------------------------------------------------------
(* createOrderFromCart: the local state of one request *)

IdleCall ==
    [pc |-> "idle", userId |-> "none", rows |-> <<>>, i |-> 0, orderId |-> 0,
     outcome |-> "none",
     \* history: no other request's step since the call began, and the
     \* coupon usage counts when it began
     alone |-> TRUE, usedBefore |-> <<>>]

\* another request's storage step ran while this one was under way
Seen(r) == IF r.pc = "idle" THEN r ELSE [r EXCEPT !.alone = FALSE]

\* calls after a step of request c that leaves it in local state r
CallsAfter(c, r) == [d \in Calls |-> IF d = c THEN r ELSE Seen(calls[d])]

\* calls after a storage step of an operation that is not a checkout
CallsSeen == [d \in Calls |-> Seen(calls[d])]

UsedCounts == [code \in Codes |-> coupons[code].used_count]

\* SELECT c.*, p.price, p.stock_quantity, p.name FROM cart c JOIN products p
\* ... WHERE c.user_id = $1
CartJoinProducts(u) ==
    {[product_id |-> p, quantity |-> cart[u][p], price |-> products[p].price,
      stock_quantity |-> products[p].stock_quantity] :
        p \in {q \in Products : cart[u][q] > 0}}

\* a stock check that only rejects products that are out of stock
StockInsufficient_OutOfStockOnly(item) == item.stock_quantity <= 0

\* if (item.stock_quantity < item.quantity) throw
StockInsufficient(item) == item.stock_quantity < item.quantity

\* const itemTotal = parseFloat(item.price) * item.quantity
ItemTotal(item) == ParseFloat(item.price) * item.quantity

\* orderItems.push({productId, quantity, price: parseFloat(item.price)})
OrderItemOf(item) ==
    [productId |-> item.product_id, quantity |-> item.quantity,
     price |-> ParseFloat(item.price)]

\* totalAmount after the loop over the rows, without the rounding error
RECURSIVE TotalAmount(_)
TotalAmount(rows) ==
    IF rows = <<>> THEN 0 ELSE ItemTotal(Head(rows)) + TotalAmount(Tail(rows))

\* the orders row of INSERT INTO orders (...) VALUES ($1, $2, ..., 'pending',
\* 'pending'), with the double total rounded by the DECIMAL(10,2) column
NewOrder(userId, totalAmount) ==
    [user_id |-> userId, total_amount |-> ToDecimal2(totalAmount),
     status |-> "pending", payment_status |-> "pending", updated_at |-> 0]

\* an order_items row priced from the catalog at insert time instead of
\* from the cart read
NewOrderItem_CurrentPrice(orderId, item) ==
    [order_id |-> orderId, product_id |-> item.productId,
     quantity |-> item.quantity, price |-> products[item.productId].price]

\* the order_items row of INSERT INTO order_items (order_id, product_id,
\* quantity, price)
NewOrderItem(orderId, item) ==
    [order_id |-> orderId, product_id |-> item.productId,
     quantity |-> item.quantity, price |-> ToDecimal2(item.price)]

\* a decrement by one unit per line instead of by the ordered quantity
DecrementStock_ByOne(prods, item) ==
    [prods EXCEPT ![item.productId].stock_quantity = @ - 1]

\* UPDATE products SET stock_quantity = stock_quantity - $1 WHERE id = $2
DecrementStock(prods, item) ==
    [prods EXCEPT ![item.productId].stock_quantity = @ - item.quantity]

\* a cart read that does not test for an empty cart
CartSelect_NoEmptyCheck(c, u) ==
    /\ calls[c].pc = "idle"
    /\ \E rows \in Orderings(CartJoinProducts(u)) :
         LET r == [IdleCall EXCEPT !.userId = u, !.rows = rows,
                                   !.usedBefore = UsedCounts] IN
         calls' = CallsAfter(c,
            IF \E k \in DOMAIN rows : StockInsufficient(rows[k])
              THEN [r EXCEPT !.pc = "returned", !.outcome = "insufficient_stock"]
            ELSE [r EXCEPT !.pc = "insert_order"])
    /\ UNCHANGED <<db, decremented, env, paystate, reqstate>>

\* the cart read and the loop over its rows (order.service.ts 58-87)
CartSelect(c, u) ==
    /\ calls[c].pc = "idle"
    /\ \E rows \in Orderings(CartJoinProducts(u)) :
         LET r == [IdleCall EXCEPT !.userId = u, !.rows = rows,
                                   !.usedBefore = UsedCounts] IN
         calls' = CallsAfter(c,
            IF rows = <<>>
              THEN [r EXCEPT !.pc = "returned", !.outcome = "cart_empty"]
            ELSE IF \E k \in DOMAIN rows : StockInsufficient(rows[k])
              THEN [r EXCEPT !.pc = "returned", !.outcome = "insufficient_stock"]
            ELSE [r EXCEPT !.pc = "insert_order"])
    /\ UNCHANGED <<db, decremented, env, paystate, reqstate>>

\* INSERT INTO orders ... RETURNING * (order.service.ts 90-106); the total
\* summed by the loop is used here for the first time
InsertOrder(c) ==
    /\ calls[c].pc = "insert_order"
    /\ \E e \in FloatErr :
         orders' = Append(orders,
                     NewOrder(calls[c].userId, TotalAmount(calls[c].rows) + e))
    /\ calls' = CallsAfter(c,
                  [calls[c] EXCEPT !.pc = "insert_item", !.i = 1,
                                   !.orderId = Len(orders) + 1])
    /\ UNCHANGED <<products, cart, order_items, coupons, decremented, env, paystate, reqstate>>

\* INSERT INTO order_items ... (order.service.ts 109-113)
InsertOrderItem(c) ==
    /\ calls[c].pc = "insert_item"
    /\ order_items' = order_items \cup
         {NewOrderItem(calls[c].orderId, OrderItemOf(calls[c].rows[calls[c].i]))}
    /\ calls' = CallsAfter(c, [calls[c] EXCEPT !.pc = "update_stock"])
    /\ UNCHANGED <<products, cart, orders, coupons, decremented, env, paystate, reqstate>>

\* UPDATE products SET stock_quantity = stock_quantity - $1
\* (order.service.ts 115-120)
UpdateStock(c) ==
    /\ calls[c].pc = "update_stock"
    /\ LET item == OrderItemOf(calls[c].rows[calls[c].i]) IN
         /\ products' = DecrementStock(products, item)
         /\ decremented' =
              [p \in Products |->
                 decremented[p]
                   + (products[p].stock_quantity - products'[p].stock_quantity)]
    /\ calls' = CallsAfter(c,
         IF calls[c].i < Len(calls[c].rows)
           THEN [calls[c] EXCEPT !.pc = "insert_item", !.i = @ + 1]
           ELSE [calls[c] EXCEPT !.pc = "delete_cart"])
    /\ UNCHANGED <<cart, orders, order_items, coupons, env, paystate, reqstate>>

\* DELETE FROM cart WHERE user_id = $1; return order (order.service.ts 122-125)
DeleteCart(c) ==
    /\ calls[c].pc = "delete_cart"
    /\ cart' = [cart EXCEPT ![calls[c].userId] = NoRows]
    /\ calls' = CallsAfter(c,
                  [calls[c] EXCEPT !.pc = "returned", !.outcome = "ok"])
    /\ UNCHANGED <<products, orders, order_items, coupons, decremented, env, paystate, reqstate>>

\* steps of the surrounding operations and failed statements so far
EnvSteps == env.edits + env.faults + env.other

\* a statement fails (connection timeout, pool or server error): query()
\* logs and rethrows, createOrderFromCart catches nothing (database.ts 76-90)
QueryFails(c) ==
    /\ calls[c].pc \in {"insert_order", "insert_item", "update_stock", "delete_cart"}
    /\ EnvSteps < MaxEnv
    /\ env' = [env EXCEPT !.faults = @ + 1]
    /\ calls' = [calls EXCEPT ![c].pc = "returned", ![c].outcome = "storage_error"]
    /\ UNCHANGED <<db, decremented, paystate, reqstate>>

\* the route handler of POST /api/orders (part_009 84-100): after an order
\* it clears the cached order responses, then it sends the response and the
\* request is over
Respond(c) ==
    /\ calls[c].pc = "returned"
    /\ calls' = [calls EXCEPT ![c] = IdleCall]
    /\ cache' = IF calls[c].outcome = "ok" THEN ClearCache("/api/orders") ELSE cache
    /\ UNCHANGED <<db, decremented, env, paystate, redeems, requests, cartstate,
                   viewstate>>

----------------------------------------------------------------------------
(* Catalog, cart and coupon operations that run between the steps of a     *)
(* checkout; each is a single statement                                    *)

\* productService.update: UPDATE products SET <provided fields> WHERE id = $n
\* (stockQuantity is validated int().min(0), price positive())
UpdateProduct(p, fields, price, stockQuantity) ==
    /\ EnvSteps < MaxEnv
    /\ products' = [products EXCEPT ![p] =
         [price |-> IF "price" \in fields THEN price ELSE @.price,
          stock_quantity |->
             IF "stockQuantity" \in fields THEN stockQuantity ELSE @.stock_quantity,
          is_active |-> @.is_active]]
    /\ products' # products
    /\ env' = [env EXCEPT !.edits = @ + 1]
    /\ calls' = CallsSeen
    /\ UNCHANGED <<cart, orders, order_items, coupons, decremented, paystate, reqstate>>

\* productService.update with the isActive field: UPDATE products SET
\* is_active = $1 WHERE id = $2
SetActive(p, isActive) ==
    /\ EnvSteps < MaxEnv
    /\ products[p].is_active # isActive
    /\ products' = [products EXCEPT ![p].is_active = isActive]
    /\ env' = [env EXCEPT !.edits = @ + 1]
    /\ calls' = CallsSeen
    /\ UNCHANGED <<cart, orders, order_items, coupons, decremented, paystate, reqstate>>

\* cartService.removeItem: DELETE FROM cart WHERE id = $1 AND user_id = $2
RemoveItem(u, p) ==
    /\ EnvSteps < MaxEnv
    /\ cart[u][p] > 0
    /\ cart' = [cart EXCEPT ![u][p] = 0]
    /\ env' = [env EXCEPT !.other = @ + 1]
    /\ calls' = CallsSeen
    /\ UNCHANGED <<products, orders, order_items, coupons, decremented, paystate, reqstate>>

\* couponService.applyCoupon: UPDATE coupons SET used_count = used_count + 1
ApplyCoupon(code) ==
    /\ EnvSteps < MaxEnv
    /\ coupons' = [coupons EXCEPT ![code].used_count = @ + 1]
    /\ env' = [env EXCEPT !.other = @ + 1]
    /\ calls' = CallsSeen
    /\ UNCHANGED <<products, cart, orders, order_items, decremented, paystate, reqstate>>

----------------------------------------------------------------------------
(* cartService.addItem (part_003 32-83): three statements, the last one an *)
(* UPDATE or an INSERT.  The cart table is UNIQUE(user_id, product_id), so *)
(* an INSERT for a pair that has a row fails.                              *)

\* the product ids a client sends: Z is the id of no product
ProductIds == Products \cup {"Z"}

\* SELECT ... FROM products WHERE id = $1 and the three checks on its row
AddSelectProduct(a, u, p, quantity) ==
    /\ adds[a].pc = "idle"
    /\ LET st == [IdleAdd EXCEPT !.op = "addItem", !.userId = u,
                                 !.productId = p, !.quantity = quantity] IN
       adds' = [adds EXCEPT ![a] =
          IF p \notin DOMAIN products
            THEN [st EXCEPT !.pc = "returned", !.outcome = "product_not_found"]
          ELSE IF ~products[p].is_active
            THEN [st EXCEPT !.pc = "returned", !.outcome = "product_unavailable"]
          ELSE IF products[p].stock_quantity < quantity
            THEN [st EXCEPT !.pc = "returned", !.outcome = "insufficient_stock"]
          ELSE [st EXCEPT !.pc = "select_cart",
                          !.stock = products[p].stock_quantity]]
    /\ calls' = CallsSeen
    /\ UNCHANGED <<db, decremented, env, paystate, redeems, requests, added,
                   viewstate, cache>>

\* const newQuantity = existingItem.rows[0].quantity + quantity
MergedQuantity(existing, quantity) == existing + quantity

\* SELECT id, quantity FROM cart WHERE user_id = $1 AND product_id = $2 and
\* the check of the merged quantity against the stock read before
AddSelectCart(a) ==
    /\ adds[a].pc = "select_cart"
    /\ LET existing == cart[adds[a].userId][adds[a].productId] IN
       adds' = [adds EXCEPT ![a] =
          IF existing > 0
            THEN IF adds[a].stock < MergedQuantity(existing, adds[a].quantity)
                   THEN [@ EXCEPT !.pc = "returned", !.existing = existing,
                                  !.outcome = "insufficient_stock"]
                   ELSE [@ EXCEPT !.pc = "update_cart", !.existing = existing]
            ELSE [@ EXCEPT !.pc = "insert_cart"]]
    /\ calls' = CallsSeen
    /\ UNCHANGED <<db, decremented, env, paystate, redeems, requests, added,
                   viewstate, cache>>

\* added after an addItem call of user u for product p returned
AddedAfter(u, p, quantity) == [added EXCEPT ![u][p] = @ + quantity]

\* UPDATE cart SET quantity = $1 WHERE user_id = $2 AND product_id = $3
\* RETURNING *; return result.rows[0]
AddUpdateCart(a) ==
    /\ adds[a].pc = "update_cart"
    /\ LET u == adds[a].userId
           p == adds[a].productId IN
         /\ cart' = IF cart[u][p] > 0
                      THEN [cart EXCEPT ![u][p] =
                              MergedQuantity(adds[a].existing, adds[a].quantity)]
                      ELSE cart
         /\ added' = AddedAfter(u, p, adds[a].quantity)
    /\ adds' = [adds EXCEPT ![a].pc = "returned", ![a].outcome = "ok"]
    /\ calls' = CallsSeen
    /\ UNCHANGED <<products, orders, order_items, coupons, decremented, env,
                   paystate, redeems, requests, viewstate, cache>>

\* INSERT INTO cart (user_id, product_id, quantity) VALUES ($1, $2, $3)
\* RETURNING *; the unique constraint rejects a second row for the pair
AddInsertCart(a) ==
    /\ adds[a].pc = "insert_cart"
    /\ LET u == adds[a].userId
           p == adds[a].productId IN
         IF cart[u][p] > 0
           THEN /\ adds' = [adds EXCEPT ![a].pc = "returned",
                                        ![a].outcome = "unique_violation"]
                /\ UNCHANGED <<cart, added>>
           ELSE /\ cart' = [cart EXCEPT ![u][p] = adds[a].quantity]
                /\ added' = AddedAfter(u, p, adds[a].quantity)
                /\ adds' = [adds EXCEPT ![a].pc = "returned", ![a].outcome = "ok"]
    /\ calls' = CallsSeen
    /\ UNCHANGED <<products, orders, order_items, coupons, decremented, env,
                   paystate, redeems, requests, viewstate, cache>>

\* the route handler sends the response and the request is over
AddRespond(a) ==
    /\ adds[a].pc = "returned"
    /\ adds' = [adds EXCEPT ![a] = IdleAdd]
    /\ UNCHANGED <<db, calls, decremented, env, paystate, redeems, requests,
                   added, viewstate, cache>>

----------------------------------------------------------------------------
(* Coupons (coupon.service.ts).  A coupons row holds discount_value,       *)
(* min_purchase_amount and max_discount_amount as DECIMAL(10,2): amounts   *)
(* in cents, a percentage in hundredths of a percent.  Times are points    *)
(* on a clock; every coupon is valid from ValidFrom until ValidUntil.      *)

\* the value of a nullable column that is not set
Null == -1

ValidFrom == 1
ValidUntil == 2
Times == {0, 1, 2, 3}

\* code.toUpperCase()
ToUpperCase(code) == IF code = "save10" THEN "SAVE10" ELSE code

\* SELECT * FROM coupons WHERE code = $1 AND is_active = true: result.rows
GetByCode(code) ==
    {coupons[k] : k \in {q \in Codes : q = ToUpperCase(code) /\ coupons[q].is_active}}

\* a JavaScript condition on a nullable INTEGER column: null and 0 are falsy
TruthyInt(x) == x # Null /\ x # 0

\* a JavaScript condition on a nullable DECIMAL column, which pg returns
\* as text: only null is falsy
TruthyText(x) == x # Null

\* (orderAmount * coupon.discount_value) / 100 in doubles, the percentage
\* held in hundredths; e is the rounding error of the two operations
PercentageDiscount(orderAmount, discountValue, e) ==
    (orderAmount * discountValue) \div (100 * 100) + e

Invalid(message) == [valid |-> FALSE, discount |-> 0, message |-> message]

\* a percentage discount that ignores max_discount_amount
CappedDiscount_NoCap(coupon, discount) == discount

\* if (coupon.max_discount_amount && discount > coupon.max_discount_amount)
CappedDiscount(coupon, discount) ==
    IF /\ TruthyText(coupon.max_discount_amount)
       /\ discount > ParseFloat(coupon.max_discount_amount)
      THEN ParseFloat(coupon.max_discount_amount)
      ELSE discount

\* the rules with the usage limit tested before the validity window
ValidateCoupon_LimitFirst(rows, orderAmount, now, e) ==
    IF rows = {} THEN Invalid("invalid_code")
    ELSE LET coupon == CHOOSE x \in rows : TRUE IN
      IF TruthyInt(coupon.usage_limit) /\ coupon.used_count >= coupon.usage_limit
        THEN Invalid("limit_reached")
      ELSE IF coupon.valid_from > now \/ coupon.valid_until < now
        THEN Invalid("expired")
      ELSE IF orderAmount < ParseFloat(coupon.min_purchase_amount)
        THEN Invalid("below_minimum")
      ELSE [valid |-> TRUE, message |-> "none",
            discount |->
              IF coupon.discount_type = "percentage"
                THEN CappedDiscount(coupon,
                       PercentageDiscount(orderAmount, coupon.discount_value, e))
                ELSE ParseFloat(coupon.discount_value)]

\* couponService.validateCoupon after its read: the checks in the order of
\* the code and the discount (coupon.service.ts 87-114)
ValidateCoupon(rows, orderAmount, now, e) ==
    IF rows = {} THEN Invalid("invalid_code")
    ELSE LET coupon == CHOOSE x \in rows : TRUE IN
      IF coupon.valid_from > now \/ coupon.valid_until < now
        THEN Invalid("expired")
      ELSE IF TruthyInt(coupon.usage_limit) /\ coupon.used_count >= coupon.usage_limit
        THEN Invalid("limit_reached")
      ELSE IF orderAmount < ParseFloat(coupon.min_purchase_amount)
        THEN Invalid("below_minimum")
      ELSE [valid |-> TRUE, message |-> "none",
            discount |->
              IF coupon.discount_type = "percentage"
                THEN CappedDiscount(coupon,
                       PercentageDiscount(orderAmount, coupon.discount_value, e))
                ELSE ParseFloat(coupon.discount_value)]

\* the local state of a request that validates a coupon and redeems it
IdleRedeem ==
    [pc |-> "idle", code |-> "none", orderAmount |-> 0, now |-> 0, rows |-> {},
     result |-> Invalid("none")]

\* a validation that counts a use of the coupon when it accepts it
Validate_Counting(r, code, orderAmount, now) ==
    /\ redeems[r].pc = "idle"
    /\ \E e \in FloatErr :
         LET rows == GetByCode(code)
             result == ValidateCoupon(rows, orderAmount, now, e) IN
         /\ redeems' = [redeems EXCEPT ![r] =
               [pc |-> IF result.valid THEN "apply" ELSE "returned",
                code |-> code, orderAmount |-> orderAmount, now |-> now,
                rows |-> rows, result |-> result]]
         /\ coupons' = IF result.valid /\ coupons[ToUpperCase(code)].used_count < MaxUsed
                          THEN [coupons EXCEPT ![ToUpperCase(code)].used_count = @ + 1]
                          ELSE coupons
    /\ UNCHANGED <<products, cart, orders, order_items, calls, requests,
                   decremented, env, paystate, cartstate, viewstate, cache>>

\* validateCoupon(code, orderAmount): the read of getByCode and the checks
\* on the row it returned
Validate(r, code, orderAmount, now) ==
    /\ redeems[r].pc = "idle"
    /\ \E e \in FloatErr :
         LET rows == GetByCode(code)
             result == ValidateCoupon(rows, orderAmount, now, e) IN
         redeems' = [redeems EXCEPT ![r] =
            [pc |-> IF result.valid THEN "apply" ELSE "returned",
             code |-> code, orderAmount |-> orderAmount, now |-> now,
             rows |-> rows, result |-> result]]
    /\ UNCHANGED <<db, calls, requests, decremented, env, paystate, cartstate,
                   viewstate, cache>>

\* applyCoupon(code) of a request whose validation succeeded:
\* UPDATE coupons SET used_count = used_count + 1 WHERE code = $1
Redeem(r) ==
    /\ redeems[r].pc = "apply"
    /\ LET code == ToUpperCase(redeems[r].code) IN
         /\ coupons[code].used_count < MaxUsed
         /\ coupons' = [coupons EXCEPT ![code].used_count = @ + 1]
    /\ redeems' = [redeems EXCEPT ![r].pc = "returned"]
    /\ UNCHANGED <<products, cart, orders, order_items, calls, requests,
                   decremented, env, paystate, cartstate, viewstate, cache>>

\* the response is sent and the request is over
RedeemRespond(r) ==
    /\ redeems[r].pc = "returned"
    /\ redeems' = [redeems EXCEPT ![r] = IdleRedeem]
    /\ UNCHANGED <<db, calls, requests, decremented, env, paystate, cartstate,
                   viewstate, cache>>

\* the coupon of the scenarios: SAVE10, 10 percent, minimum purchase 15.00
SeedCoupon ==
    [discount_type |-> "percentage", discount_value |-> 1000,
     min_purchase_amount |-> 1500, max_discount_amount |-> Null,
     usage_limit |-> 1, used_count |-> 0,
     valid_from |-> ValidFrom, valid_until |-> ValidUntil, is_active |-> TRUE]

\* the body of an order request that carries no coupon code
NoBody == [couponCode |-> "none"]

----------------------------------------------------------------------------
(* The store after seeding and some shopping: every product in stock at a  *)
(* seeded price, no order yet.  Carts hold what addItem and updateItem can *)
(* leave; u1 shops both products, u2 only product A, u3 nothing.           *)

InitStore ==
    /\ orders = <<>>
    /\ order_items = {}
    /\ coupons = [code \in Codes |-> SeedCoupon]
    /\ decremented = [p \in Products |-> 0]
    /\ env = [edits |-> 0, faults |-> 0, other |-> 0]
    /\ calls = [c \in Calls |-> IdleCall]
    /\ payments = <<>>
    /\ intents = <<>>
    /\ refunds = <<>>
    /\ pays = [r \in Pays |-> IdlePay]
    /\ redeems = [r \in Redeems |-> IdleRedeem]
    /\ requests = [c \in Calls |-> NoBody]
    /\ InitRoutes

Init ==
    /\ products = [p \in Products |-> [price |-> 1000, stock_quantity |-> MaxStock, is_active |-> TRUE]]
    /\ cart \in {f \in [Users -> [Products -> 0..MaxQty]] :
                   /\ f["u1"] # NoRows
                   /\ f["u2"]["A"] > 0 /\ f["u2"]["B"] = 0
                   /\ f["u3"] = NoRows}
    /\ InitStore

\* the requests of u1 and u2
Shoppers == {"c1", "c2"}

Next ==
    \/ \E c \in Shoppers : CartSelect(c, CallerOf[c])
    \/ \E c \in Shoppers : InsertOrder(c)
    \/ \E c \in Shoppers : InsertOrderItem(c)
    \/ \E c \in Shoppers : UpdateStock(c)
    \/ \E c \in Shoppers : DeleteCart(c)
    \/ \E c \in Shoppers : QueryFails(c)
    \/ \E c \in Shoppers : Respond(c)
    \/ \E p \in Products, price \in Prices :
          UpdateProduct(p, {"price"}, price, products[p].stock_quantity)
    \/ \E p \in Products, stockQuantity \in {0, MaxStock} :
          UpdateProduct(p, {"stockQuantity"}, products[p].price, stockQuantity)
    \/ \E u \in Users, p \in Products : RemoveItem(u, p)
    \/ \E code \in Codes : ApplyCoupon(code)

Spec == Init /\ [][Next]_vars

----------------------------------------------------------------------------
(* Checkout of carts that hold a product the catalog has deactivated since *)
(* it was added (addItem only accepts active products).                    *)

NextInactive ==
    \/ \E c \in Shoppers : CartSelect(c, CallerOf[c])
    \/ \E c \in Shoppers : InsertOrder(c)
    \/ \E c \in Shoppers : InsertOrderItem(c)
    \/ \E c \in Shoppers : UpdateStock(c)
    \/ \E c \in Shoppers : DeleteCart(c)
    \/ \E c \in Shoppers : Respond(c)
    \/ \E p \in Products, isActive \in BOOLEAN : SetActive(p, isActive)

SpecInactive == Init /\ [][NextInactive]_vars

----------------------------------------------------------------------------
(* The race for the last units: every user has one unit of product A in    *)
(* the cart, fewer units are in stock than users, and each user checks out *)
(* once; nothing else runs and no statement fails.                         *)

InitRace ==
    /\ \E S \in 0..(Cardinality(Calls) - 1) :
         products = [p \in Products |-> [price |-> 1000, stock_quantity |-> S, is_active |-> TRUE]]
    /\ cart = [u \in Users |-> [p \in Products |-> IF p = "A" THEN 1 ELSE 0]]
    /\ InitStore

NextRace ==
    \/ \E c \in Calls : CartSelect(c, CallerOf[c])
    \/ \E c \in Calls : InsertOrder(c)
    \/ \E c \in Calls : InsertOrderItem(c)
    \/ \E c \in Calls : UpdateStock(c)
    \/ \E c \in Calls : DeleteCart(c)

SpecRace == InitRace /\ [][NextRace]_vars

----------------------------------------------------------------------------
(* The double submit: u1 sends POST /api/orders twice for the same cart;   *)
(* the two requests run createOrderFromCart({userId: u1, ...}) and nothing *)
(* else runs.                                                              *)

NextDouble ==
    \/ \E c \in Shoppers : CartSelect(c, "u1")
    \/ \E c \in Shoppers : InsertOrder(c)
    \/ \E c \in Shoppers : InsertOrderItem(c)
    \/ \E c \in Shoppers : UpdateStock(c)
    \/ \E c \in Shoppers : DeleteCart(c)
    \/ \E c \in Shoppers : Respond(c)

SpecDouble == Init /\ [][NextDouble]_vars

----------------------------------------------------------------------------
(* Shopping during checkout: u1 sends POST /api/orders once while two      *)
(* addItem requests of u1 are under way (a second browser tab, a retried   *)
(* request).                                                               *)

NextCart ==
    \/ CartSelect("c1", "u1")
    \/ InsertOrder("c1")
    \/ InsertOrderItem("c1")
    \/ UpdateStock("c1")
    \/ DeleteCart("c1")
    \/ \E a \in Adds, p \in ProductIds, quantity \in 1..MaxQty :
          AddSelectProduct(a, "u1", p, quantity)
    \/ \E a \in Adds : AddSelectCart(a)
    \/ \E a \in Adds : AddUpdateCart(a)
    \/ \E a \in Adds : AddInsertCart(a)

SpecCart == Init /\ [][NextCart]_vars

----------------------------------------------------------------------------
(* Shoppers filling their carts: concurrent addItem requests on carts that *)
(* start empty; the catalog can run a product out of stock or deactivate   *)
(* it meanwhile.                                                           *)

InitAdd ==
    /\ products = [p \in Products |-> [price |-> 1000, stock_quantity |-> MaxStock, is_active |-> TRUE]]
    /\ cart = [u \in Users |-> NoRows]
    /\ InitStore

\* the user who shops
AddUsers == {"u1"}

NextAdd ==
    \/ \E a \in Adds, u \in AddUsers, p \in ProductIds, quantity \in 1..MaxQty :
          AddSelectProduct(a, u, p, quantity)
    \/ \E a \in Adds : AddSelectCart(a)
    \/ \E a \in Adds : AddUpdateCart(a)
    \/ \E a \in Adds : AddInsertCart(a)
    \/ \E a \in Adds : AddRespond(a)
    \/ \E p \in Products, isActive \in BOOLEAN : SetActive(p, isActive)

SpecAdd == InitAdd /\ [][NextAdd]_vars

----------------------------------------------------------------------------
(* The payment processor (Stripe), seen through the three calls the        *)
(* service makes: paymentIntents.create, paymentIntents.retrieve and       *)
(* refunds.create.                                                         *)

\* an intent starts without a payment method, is processed once the
\* customer confirms it on the client, and then succeeds or falls back;
\* succeeded and canceled are final, and a refund leaves it succeeded
IntentMoves ==
    {<<"requires_payment_method", "processing">>,
     <<"processing", "succeeded">>,
     <<"processing", "requires_payment_method">>,
     <<"requires_payment_method", "canceled">>}

ProcessorAdvance(i, status) ==
    /\ i \in DOMAIN intents
    /\ <<intents[i].status, status>> \in IntentMoves
    /\ intents' = [intents EXCEPT ![i].status = status]
    /\ UNCHANGED <<orders, payments, refunds, pays, shopstate, reqstate, env>>

\* amount: Math.round(amount * 100), the cents of a double amount
StripeAmount(amount, e) == ToDecimal2(ParseFloat(amount) + e)

----------------------------------------------------------------------------
(* paymentService.createPaymentIntent (payment.service.ts 32-70) *)

\* a createPaymentIntent that does not test the order's payment_status
CpiSelectOrder_NoPaidCheck(r, orderId, amount) ==
    /\ pays[r].pc = "idle"
    /\ Len(intents) + Cardinality({q \in Pays : pays[q].pc = "stripe_create"})
         < MaxPayments
    /\ LET st == [IdlePay EXCEPT !.op = "createPaymentIntent",
                                 !.orderId = orderId, !.amount = amount] IN
       pays' = [pays EXCEPT ![r] =
          IF orderId \notin DOMAIN orders
            THEN [st EXCEPT !.pc = "returned", !.outcome = "order_not_found"]
          ELSE [st EXCEPT !.pc = "stripe_create"]]
    /\ UNCHANGED <<orders, payments, intents, refunds, shopstate, reqstate, env>>

\* SELECT * FROM orders WHERE id = $1, and the two checks on the row
CpiSelectOrder(r, orderId, amount) ==
    /\ pays[r].pc = "idle"
    /\ Len(intents) + Cardinality({q \in Pays : pays[q].pc = "stripe_create"})
         < MaxPayments
    /\ LET st == [IdlePay EXCEPT !.op = "createPaymentIntent",
                                 !.orderId = orderId, !.amount = amount] IN
       pays' = [pays EXCEPT ![r] =
          IF orderId \notin DOMAIN orders
            THEN [st EXCEPT !.pc = "returned", !.outcome = "order_not_found"]
          ELSE IF orders[orderId].payment_status = "paid"
            THEN [st EXCEPT !.pc = "returned", !.outcome = "already_paid"]
          ELSE [st EXCEPT !.pc = "stripe_create"]]
    /\ UNCHANGED <<orders, payments, intents, refunds, shopstate, reqstate, env>>

\* stripe.paymentIntents.create({amount, currency, metadata: {orderId}})
CpiStripeCreate(r) ==
    /\ pays[r].pc = "stripe_create"
    /\ \E e \in FloatErr :
         intents' = Append(intents,
            [status |-> "requires_payment_method",
             amount |-> StripeAmount(pays[r].amount, e),
             orderId |-> pays[r].orderId])
    /\ pays' = [pays EXCEPT ![r].pc = "insert_payment",
                            ![r].intentId = Len(intents) + 1]
    /\ UNCHANGED <<orders, payments, refunds, shopstate, reqstate, env>>

\* a payments row inserted without the processor's reference
NewPayment_NoReference(orderId, amount, intentId) ==
    [order_id |-> orderId, amount |-> ToDecimal2(ParseFloat(amount)),
     payment_intent_id |-> 0,
     status |-> "pending", transaction_id |-> 0, updated_at |-> 0]

\* the payments row of INSERT INTO payments (...) VALUES (..., 'pending')
NewPayment(orderId, amount, intentId) ==
    [order_id |-> orderId, amount |-> ToDecimal2(ParseFloat(amount)),
     payment_intent_id |-> intentId,
     status |-> "pending", transaction_id |-> 0, updated_at |-> 0]

\* INSERT INTO payments ... RETURNING *; return {payment, clientSecret}
CpiInsertPayment(r) ==
    /\ pays[r].pc = "insert_payment"
    /\ payments' = Append(payments,
          NewPayment(pays[r].orderId, pays[r].amount, pays[r].intentId))
    /\ pays' = [pays EXCEPT ![r].pc = "returned", ![r].outcome = "ok",
                            ![r].paymentId = Len(payments) + 1]
    /\ UNCHANGED <<orders, intents, refunds, shopstate, reqstate, env>>

----------------------------------------------------------------------------
(* paymentService.confirmPayment (payment.service.ts 73-110) *)

\* stripe.paymentIntents.retrieve(paymentIntentId); an unknown id throws
CfRetrieve(r, paymentIntentId) ==
    /\ pays[r].pc = "idle"
    /\ LET st == [IdlePay EXCEPT !.op = "confirmPayment",
                                 !.intentId = paymentIntentId] IN
       pays' = [pays EXCEPT ![r] =
          IF paymentIntentId \notin DOMAIN intents
            THEN [st EXCEPT !.pc = "returned", !.outcome = "processor_error"]
            ELSE [st EXCEPT !.pc = "update_payment",
                            !.piStatus = intents[paymentIntentId].status]]
    /\ UNCHANGED <<orders, payments, intents, refunds, shopstate, reqstate, env>>

\* paymentIntent.status === "succeeded" ? "succeeded" : "failed"
ConfirmedStatus(piStatus) == IF piStatus = "succeeded" THEN "succeeded" ELSE "failed"

\* an UPDATE whose WHERE clause matches every payments row
PaymentsOfIntent_AnyRow(intentId) == DOMAIN payments

\* the rows matched by WHERE payment_intent_id = $3
PaymentsOfIntent(intentId) ==
    {k \in DOMAIN payments : payments[k].payment_intent_id = intentId}

\* UPDATE payments SET status = $1, transaction_id = $2, updated_at =
\* CURRENT_TIMESTAMP WHERE payment_intent_id = $3 RETURNING *
ConfirmUpdate(rows, status, intentId) ==
    [k \in DOMAIN payments |->
       IF k \in rows
         THEN [payments[k] EXCEPT !.status = status, !.transaction_id = intentId,
                                  !.updated_at = @ + 1]
         ELSE payments[k]]

\* the UPDATE of the payment row, the not-found check and the branch on the
\* processor status (payment.service.ts 78-107)
CfUpdatePayment(r) ==
    /\ pays[r].pc = "update_payment"
    /\ pays[r].op = "confirmPayment"
    /\ LET rows == PaymentsOfIntent(pays[r].intentId) IN
         /\ \A k \in rows : payments[k].updated_at < MaxWrites
         /\ payments' = ConfirmUpdate(rows, ConfirmedStatus(pays[r].piStatus),
                                      pays[r].intentId)
         /\ pays' = [pays EXCEPT ![r] =
              IF rows = {}
                THEN [@ EXCEPT !.pc = "returned", !.outcome = "payment_not_found"]
              ELSE LET k == CHOOSE j \in rows : TRUE IN
                IF pays[r].piStatus = "succeeded"
                  THEN [@ EXCEPT !.pc = "update_order", !.paymentId = k,
                                 !.orderId = payments[k].order_id]
                ELSE IF pays[r].piStatus = "payment_failed"
                  THEN [@ EXCEPT !.pc = "update_order", !.paymentId = k,
                                 !.orderId = payments[k].order_id]
                ELSE [@ EXCEPT !.pc = "returned", !.outcome = "ok",
                               !.paymentId = k, !.orderId = payments[k].order_id]]
    /\ UNCHANGED <<orders, intents, refunds, shopstate, reqstate, env>>

\* UPDATE orders SET payment_status = 'paid' | 'failed', updated_at =
\* CURRENT_TIMESTAMP WHERE id = $1
CfUpdateOrder(r) ==
    /\ pays[r].pc = "update_order"
    /\ pays[r].op = "confirmPayment"
    /\ orders[pays[r].orderId].updated_at < MaxWrites
    /\ orders' = [orders EXCEPT
          ![pays[r].orderId].payment_status =
              IF pays[r].piStatus = "succeeded" THEN "paid" ELSE "failed",
          ![pays[r].orderId].updated_at = @ + 1]
    /\ pays' = [pays EXCEPT ![r].pc = "returned", ![r].outcome = "ok"]
    /\ UNCHANGED <<payments, intents, refunds, shopstate, reqstate, env>>

----------------------------------------------------------------------------
(* paymentService.refundPayment (payment.service.ts 128-164) *)

\* a refundPayment that does not test the payment's status
RfSelectPayment_AnyStatus(r, paymentId) ==
    /\ pays[r].pc = "idle"
    /\ LET st == [IdlePay EXCEPT !.op = "refundPayment", !.paymentId = paymentId] IN
       pays' = [pays EXCEPT ![r] =
          IF paymentId \notin DOMAIN payments
            THEN [st EXCEPT !.pc = "returned", !.outcome = "payment_not_found"]
          ELSE [st EXCEPT !.pc = "stripe_refund",
                          !.intentId = payments[paymentId].payment_intent_id,
                          !.orderId = payments[paymentId].order_id]]
    /\ UNCHANGED <<orders, payments, intents, refunds, shopstate, reqstate, env>>

\* SELECT * FROM payments WHERE id = $1, and the checks on the row
RfSelectPayment(r, paymentId) ==
    /\ pays[r].pc = "idle"
    /\ LET st == [IdlePay EXCEPT !.op = "refundPayment", !.paymentId = paymentId] IN
       pays' = [pays EXCEPT ![r] =
          IF paymentId \notin DOMAIN payments
            THEN [st EXCEPT !.pc = "returned", !.outcome = "payment_not_found"]
          ELSE IF payments[paymentId].status # "succeeded"
            THEN [st EXCEPT !.pc = "returned", !.outcome = "not_refundable"]
          ELSE [st EXCEPT !.pc = "stripe_refund",
                          !.intentId = payments[paymentId].payment_intent_id,
                          !.orderId = payments[paymentId].order_id]]
    /\ UNCHANGED <<orders, payments, intents, refunds, shopstate, reqstate, env>>

\* stripe.refunds.create({payment_intent}); the processor refuses to refund
\* an intent that has not succeeded or is already refunded
RfStripeRefund(r) ==
    /\ pays[r].pc = "stripe_refund"
    /\ IF /\ intents[pays[r].intentId].status = "succeeded"
          /\ \A k \in DOMAIN refunds : refunds[k] # pays[r].intentId
         THEN /\ refunds' = Append(refunds, pays[r].intentId)
              /\ pays' = [pays EXCEPT ![r].pc = "update_payment"]
         ELSE /\ refunds' = refunds
              /\ pays' = [pays EXCEPT ![r].pc = "returned",
                                      ![r].outcome = "processor_error"]
    /\ UNCHANGED <<orders, payments, intents, shopstate, reqstate, env>>

\* UPDATE payments SET status = 'refunded', updated_at = CURRENT_TIMESTAMP
\* WHERE id = $1
RfUpdatePayment(r) ==
    /\ pays[r].pc = "update_payment"
    /\ pays[r].op = "refundPayment"
    /\ payments[pays[r].paymentId].updated_at < MaxWrites
    /\ payments' = [payments EXCEPT ![pays[r].paymentId].status = "refunded",
                                    ![pays[r].paymentId].updated_at = @ + 1]
    /\ pays' = [pays EXCEPT ![r].pc = "update_order"]
    /\ UNCHANGED <<orders, intents, refunds, shopstate, reqstate, env>>

\* UPDATE orders SET payment_status = 'refunded', updated_at =
\* CURRENT_TIMESTAMP WHERE id = $1
RfUpdateOrder(r) ==
    /\ pays[r].pc = "update_order"
    /\ pays[r].op = "refundPayment"
    /\ orders[pays[r].orderId].updated_at < MaxWrites
    /\ orders' = [orders EXCEPT ![pays[r].orderId].payment_status = "refunded",
                                ![pays[r].orderId].updated_at = @ + 1]
    /\ pays' = [pays EXCEPT ![r].pc = "returned", ![r].outcome = "ok"]
    /\ UNCHANGED <<payments, intents, refunds, shopstate, reqstate, env>>

\* a statement or a processor call of a payment request fails or times
\* out: the error propagates to the route handler
PayCallFails(r) ==
    /\ pays[r].pc \in {"stripe_create", "insert_payment", "update_payment",
                       "update_order", "stripe_refund"}
    /\ EnvSteps < MaxEnv
    /\ env' = [env EXCEPT !.faults = @ + 1]
    /\ pays' = [pays EXCEPT ![r] = [IdlePay EXCEPT !.pc = "returned",
                                 !.op = pays[r].op, !.outcome = "call_failed"]]
    /\ UNCHANGED <<orders, payments, intents, refunds, shopstate, reqstate>>

\* the route handler sends the response and the request is over
PayRespond(r) ==
    /\ pays[r].pc = "returned"
    /\ pays' = [pays EXCEPT ![r] = IdlePay]
    /\ UNCHANGED <<orders, payments, intents, refunds, shopstate, reqstate, env>>

----------------------------------------------------------------------------
(* orderService.updateOrderStatus (order.service.ts 187-200) and its route *)
(* PUT /api/orders/:id/status (part_009 118-132)                           *)

ValidStatuses == {"pending", "processing", "shipped", "delivered", "cancelled"}

\* the statuses an admin sends: the valid ones and one that is not
SentStatuses == ValidStatuses \cup {"returned"}

\* an update that also resets the order's total
OrderWithStatus_ResetTotal(order, status) ==
    [order EXCEPT !.status = status, !.total_amount = 0, !.updated_at = @ + 1]

\* SET status = $1, updated_at = CURRENT_TIMESTAMP
OrderWithStatus(order, status) ==
    [order EXCEPT !.status = status, !.updated_at = @ + 1]

\* the check of the status and UPDATE orders SET status = $1, updated_at =
\* CURRENT_TIMESTAMP WHERE id = $2 RETURNING *
UpdateOrderStatus(orderId, status) ==
    /\ statusReply.pc = "idle"
    /\ LET st == [NoReply EXCEPT !.orderId = orderId, !.status = status] IN
       IF status \notin ValidStatuses
         THEN /\ statusReply' = [st EXCEPT !.pc = "returned",
                                           !.outcome = "invalid_status"]
              /\ UNCHANGED <<orders, calls>>
         ELSE /\ orderId \in DOMAIN orders => orders[orderId].updated_at < MaxWrites
              /\ orders' = [o \in DOMAIN orders |->
                              IF o = orderId THEN OrderWithStatus(orders[o], status)
                                             ELSE orders[o]]
              /\ statusReply' = [st EXCEPT !.pc = "clear_cache"]
              /\ calls' = CallsSeen
    /\ UNCHANGED <<products, cart, order_items, coupons, decremented, env,
                   paystate, redeems, requests, cartstate, gets, cache>>

\* clearCache(`/api/orders/${req.params.id}`); clearCache("/api/orders");
\* res.json(order)
StatusClearCache ==
    /\ statusReply.pc = "clear_cache"
    /\ cache' = ClearCache("/api/orders")
    /\ statusReply' = [statusReply EXCEPT !.pc = "returned", !.outcome = "ok"]
    /\ UNCHANGED <<db, calls, decremented, env, paystate, redeems, requests,
                   cartstate, gets>>

\* the response is sent and the request is over
StatusRespond ==
    /\ statusReply.pc = "returned"
    /\ statusReply' = NoReply
    /\ UNCHANGED <<db, calls, decremented, env, paystate, redeems, requests,
                   cartstate, gets, cache>>

----------------------------------------------------------------------------
(* GET /api/orders and GET /api/orders/:id (part_009 102-149) behind       *)
(* cacheMiddleware (middleware/cache.ts 15-48)                             *)

\* a key is deleted when its TTL has passed
CacheExpire(key) ==
    /\ cache[key] # NoEntry
    /\ cache' = [cache EXCEPT ![key] = NoEntry]
    /\ UNCHANGED <<db, calls, decremented, env, paystate, redeems, requests,
                   cartstate, viewstate>>

\* cacheMiddleware: the key is the URL; a cached body is sent at once,
\* otherwise res.json is wrapped and the route handler runs
GetStart(g, u, url) ==
    /\ gets[g].pc = "idle"
    /\ LET st == [IdleGet EXCEPT !.userId = u, !.url = url] IN
       gets' = [gets EXCEPT ![g] =
          IF cache[url] # NoEntry
            THEN [st EXCEPT !.pc = "returned", !.body = cache[url], !.hit = TRUE]
          ELSE IF IdOfUrl(url) = 0
            THEN [st EXCEPT !.pc = "select_orders"]
          ELSE [st EXCEPT !.pc = "select_order"]]
    /\ UNCHANGED <<db, calls, decremented, env, paystate, redeems, requests,
                   cartstate, statusReply, cache>>

\* getAllOrders for an admin, getUserOrders(req.user.id) otherwise
OrdersFor(u) ==
    IF u \in Admins THEN DOMAIN orders
    ELSE {o \in DOMAIN orders : orders[o].user_id = u}

\* the list handler: SELECT * FROM orders [WHERE user_id = $1]; the wrapped
\* res.json caches the body under the key
GetList(g) ==
    /\ gets[g].pc = "select_orders"
    /\ LET body == [kind |-> "list", ids |-> OrdersFor(gets[g].userId)] IN
         /\ cache' = [cache EXCEPT ![gets[g].url] = body]
         /\ gets' = [gets EXCEPT ![g].pc = "returned", ![g].body = body]
    /\ UNCHANGED <<db, calls, decremented, env, paystate, redeems, requests,
                   cartstate, statusReply>>

\* getOrderById: SELECT * FROM orders WHERE id = $1 [AND user_id = $2]; the
\* 404 body goes through the wrapped res.json too
GetOrder(g) ==
    /\ gets[g].pc = "select_order"
    /\ LET id == IdOfUrl(gets[g].url)
           body == [kind |-> "error", ids |-> {}] IN
         IF id \in OrdersFor(gets[g].userId)
           THEN /\ gets' = [gets EXCEPT ![g].pc = "select_items", ![g].order = id]
                /\ cache' = cache
           ELSE /\ gets' = [gets EXCEPT ![g].pc = "returned", ![g].body = body]
                /\ cache' = [cache EXCEPT ![gets[g].url] = body]
    /\ UNCHANGED <<db, calls, decremented, env, paystate, redeems, requests,
                   cartstate, statusReply>>

\* getOrderItems(order.id); res.json({...order, items})
GetItems(g) ==
    /\ gets[g].pc = "select_items"
    /\ LET body == [kind |-> "order", ids |-> {gets[g].order}] IN
         /\ cache' = [cache EXCEPT ![gets[g].url] = body]
         /\ gets' = [gets EXCEPT ![g].pc = "returned", ![g].body = body]
    /\ UNCHANGED <<db, calls, decremented, env, paystate, redeems, requests,
                   cartstate, statusReply>>

\* the response is sent and the request is over
GetRespond(g) ==
    /\ gets[g].pc = "returned"
    /\ gets' = [gets EXCEPT ![g] = IdleGet]
    /\ UNCHANGED <<db, calls, decremented, env, paystate, redeems, requests,
                   cartstate, statusReply, cache>>

----------------------------------------------------------------------------
(* Payments for an order that a checkout has created: u1 has bought two    *)
(* units of product A at 10.00.                                            *)

InitPay ==
    /\ products = [p \in Products |->
          [price |-> 1000,
           stock_quantity |-> IF p = "A" THEN MaxStock - 2 ELSE MaxStock,
           is_active |-> TRUE]]
    /\ cart = [u \in Users |-> NoRows]
    /\ orders = <<NewOrder("u1", 2 * ParseFloat(1000))>>
    /\ order_items =
          {NewOrderItem(1, [productId |-> "A", quantity |-> 2,
                            price |-> ParseFloat(1000)])}
    /\ coupons = [code \in Codes |-> SeedCoupon]
    /\ decremented = [p \in Products |-> IF p = "A" THEN 2 ELSE 0]
    /\ env = [edits |-> 0, faults |-> 0, other |-> 0]
    /\ calls = [c \in Calls |-> IdleCall]
    /\ payments = <<>>
    /\ intents = <<>>
    /\ refunds = <<>>
    /\ pays = [r \in Pays |-> IdlePay]
    /\ redeems = [r \in Redeems |-> IdleRedeem]
    /\ requests = [c \in Calls |-> NoBody]
    /\ InitRoutes

\* the amounts a client sends: the order's total or another amount
Amounts == {2000, 500}

NextPay ==
    \/ \E r \in Pays, orderId \in 1..(Len(orders) + 1), amount \in Amounts :
          CpiSelectOrder(r, orderId, amount)
    \/ \E r \in Pays : CpiStripeCreate(r)
    \/ \E r \in Pays : CpiInsertPayment(r)
    \/ \E r \in Pays, paymentIntentId \in 1..(Len(intents) + 1) :
          CfRetrieve(r, paymentIntentId)
    \/ \E r \in Pays : CfUpdatePayment(r)
    \/ \E r \in Pays : CfUpdateOrder(r)
    \/ \E r \in Pays, paymentId \in 1..(Len(payments) + 1) :
          RfSelectPayment(r, paymentId)
    \/ \E r \in Pays : RfStripeRefund(r)
    \/ \E r \in Pays : RfUpdatePayment(r)
    \/ \E r \in Pays : RfUpdateOrder(r)
    \/ \E r \in Pays : PayCallFails(r)
    \/ \E r \in Pays : PayRespond(r)
    \/ \E i \in DOMAIN intents,
          status \in {"processing", "succeeded", "requires_payment_method", "canceled"} :
          ProcessorAdvance(i, status)

SpecPay == InitPay /\ [][NextPay]_vars

----------------------------------------------------------------------------
(* The life of an order after checkout: the admin moves its status, one    *)
(* payment request at a time creates, confirms or refunds its one payment, *)
(* the catalog reprices or restocks its product, and its buyer puts        *)
(* product B in the cart.                                                  *)

NextAfter ==
    \/ \E orderId \in 1..(Len(orders) + 1), status \in SentStatuses :
          UpdateOrderStatus(orderId, status)
    \/ StatusClearCache
    \/ StatusRespond
    \/ intents = <<>> /\ CpiSelectOrder("p1", 1, orders[1].total_amount)
    \/ CpiStripeCreate("p1")
    \/ CpiInsertPayment("p1")
    \/ \E paymentIntentId \in DOMAIN intents : CfRetrieve("p1", paymentIntentId)
    \/ CfUpdatePayment("p1")
    \/ CfUpdateOrder("p1")
    \/ \E paymentId \in DOMAIN payments : RfSelectPayment("p1", paymentId)
    \/ RfStripeRefund("p1")
    \/ RfUpdatePayment("p1")
    \/ RfUpdateOrder("p1")
    \/ PayRespond("p1")
    \/ \E i \in DOMAIN intents, status \in {"processing", "succeeded"} :
          ProcessorAdvance(i, status)
    \/ \E price \in Prices :
          UpdateProduct("A", {"price"}, price, products["A"].stock_quantity)
    \/ \E stockQuantity \in {0, MaxStock} :
          UpdateProduct("A", {"stockQuantity"}, products["A"].price, stockQuantity)
    \/ \E quantity \in 1..MaxQty : AddSelectProduct("a1", "u1", "B", quantity)
    \/ AddSelectCart("a1")
    \/ AddInsertCart("a1")

SpecAfter == InitPay /\ [][NextAfter]_vars

----------------------------------------------------------------------------
(* Looking at orders: u1 and u2 have each bought one unit of product A;    *)
(* they and an admin read the order list and the orders, the admin moves   *)
(* the orders' status, cached responses expire.                            *)

InitView ==
    /\ products = [p \in Products |->
          [price |-> 1000,
           stock_quantity |-> IF p = "A" THEN MaxStock - 2 ELSE MaxStock,
           is_active |-> TRUE]]
    /\ cart = [u \in Users |-> NoRows]
    /\ orders = <<NewOrder("u1", ParseFloat(1000)), NewOrder("u2", ParseFloat(1000))>>
    /\ order_items =
          {NewOrderItem(o, [productId |-> "A", quantity |-> 1,
                            price |-> ParseFloat(1000)]) : o \in {1, 2}}
    /\ coupons = [code \in Codes |-> SeedCoupon]
    /\ decremented = [p \in Products |-> IF p = "A" THEN 2 ELSE 0]
    /\ env = [edits |-> 0, faults |-> 0, other |-> 0]
    /\ calls = [c \in Calls |-> IdleCall]
    /\ payments = <<>>
    /\ intents = <<>>
    /\ refunds = <<>>
    /\ pays = [r \in Pays |-> IdlePay]
    /\ redeems = [r \in Redeems |-> IdleRedeem]
    /\ requests = [c \in Calls |-> NoBody]
    /\ InitRoutes

\* the users who send the GET requests
Viewers == {"u1", "u2"} \cup Admins

NextView ==
    \/ \E g \in Gets, u \in Viewers, url \in Urls : GetStart(g, u, url)
    \/ \E g \in Gets : GetList(g)
    \/ \E g \in Gets : GetOrder(g)
    \/ \E g \in Gets : GetItems(g)
    \/ \E g \in Gets : GetRespond(g)
    \/ \E key \in Urls : CacheExpire(key)
    \/ \E orderId \in DOMAIN orders : UpdateOrderStatus(orderId, "processing")
    \/ StatusClearCache
    \/ StatusRespond

SpecView == InitView /\ [][NextView]_vars

----------------------------------------------------------------------------
(* Coupon validation and redemption by concurrent requests, for every      *)
(* coupon the admin routes can have created.                               *)

\* the coupons couponService.create can store under createCouponSchema
CouponRows ==
    [discount_type : {"percentage", "fixed"}, discount_value : {1000},
     min_purchase_amount : {0, 1500}, max_discount_amount : {Null, 100},
     usage_limit : {Null, 1}, used_count : {0},
     valid_from : {ValidFrom}, valid_until : {ValidUntil}, is_active : BOOLEAN]

\* the codes and order amounts (in cents) a client sends
RequestCodes == {"SAVE10", "save10", "NOPE"}
OrderAmounts == {500, 1500, 2000}

InitCoupon ==
    /\ products = [p \in Products |-> [price |-> 1000, stock_quantity |-> MaxStock, is_active |-> TRUE]]
    /\ cart = [u \in Users |-> NoRows]
    /\ orders = <<>>
    /\ order_items = {}
    /\ coupons \in [Codes -> CouponRows]
    /\ decremented = [p \in Products |-> 0]
    /\ env = [edits |-> 0, faults |-> 0, other |-> 0]
    /\ calls = [c \in Calls |-> IdleCall]
    /\ payments = <<>>
    /\ intents = <<>>
    /\ refunds = <<>>
    /\ pays = [r \in Pays |-> IdlePay]
    /\ redeems = [r \in Redeems |-> IdleRedeem]
    /\ requests = [c \in Calls |-> NoBody]
    /\ InitRoutes

NextCoupon ==
    \/ \E r \in Redeems, code \in RequestCodes, amount \in OrderAmounts, now \in Times :
          Validate(r, code, ParseFloat(amount), now)
    \/ \E r \in Redeems : Redeem(r)
    \/ \E r \in Redeems : RedeemRespond(r)

SpecCoupon == InitCoupon /\ [][NextCoupon]_vars

----------------------------------------------------------------------------
(* Order requests whose body carries a coupon code.  createOrderSchema has *)
(* no coupon field, so the parsed data that reaches createOrderFromCart    *)
(* never holds the code: the checkout steps do not read requests.  u1 has  *)
(* two units of product A in the cart (20.00), u2 one unit (10.00).        *)

\* the bodies a client sends: no code, the seeded code, an unknown code
Bodies == [couponCode : {"none", "SAVE10", "NOPE"}]

InitOrderCoupon ==
    /\ products = [p \in Products |-> [price |-> 1000, stock_quantity |-> MaxStock, is_active |-> TRUE]]
    /\ cart = [u \in Users |->
                 [p \in Products |->
                    IF p = "A" /\ u = "u1" THEN 2
                    ELSE IF p = "A" /\ u = "u2" THEN 1 ELSE 0]]
    /\ orders = <<>>
    /\ order_items = {}
    /\ coupons = [code \in Codes |-> SeedCoupon]
    /\ decremented = [p \in Products |-> 0]
    /\ env = [edits |-> 0, faults |-> 0, other |-> 0]
    /\ calls = [c \in Calls |-> IdleCall]
    /\ payments = <<>>
    /\ intents = <<>>
    /\ refunds = <<>>
    /\ pays = [r \in Pays |-> IdlePay]
    /\ redeems = [r \in Redeems |-> IdleRedeem]
    /\ requests \in [Calls -> Bodies]
    /\ InitRoutes

NextOrderCoupon ==
    \/ \E c \in Shoppers : CartSelect(c, CallerOf[c])
    \/ \E c \in Shoppers : InsertOrder(c)
    \/ \E c \in Shoppers : InsertOrderItem(c)
    \/ \E c \in Shoppers : UpdateStock(c)
    \/ \E c \in Shoppers : DeleteCart(c)
    \/ \E c \in Shoppers : Respond(c)

SpecOrderCoupon == InitOrderCoupon /\ [][NextOrderCoupon]_vars

----------------------------------------------------------------------------
(* Properties of the order builder *)

InProgress(c) == calls[c].pc \notin {"idle", "returned"}

Returned(c, outcome) == calls[c].pc = "returned" /\ calls[c].outcome = outcome

\* the order_items rows of an order
ItemsOf(o) == {it \in order_items : it.order_id = o}

\* sum of price * quantity over a set of order_items rows
RECURSIVE ItemsTotal(_)
ItemsTotal(S) ==
    IF S = {} THEN 0
    ELSE LET it == CHOOSE x \in S : TRUE
         IN it.price * it.quantity + ItemsTotal(S \ {it})

\* sum of the quantities of a set of order_items rows
RECURSIVE ItemsQuantity(_)
ItemsQuantity(S) ==
    IF S = {} THEN 0
    ELSE LET it == CHOOSE x \in S : TRUE
         IN it.quantity + ItemsQuantity(S \ {it})

\* the order_items row a cart row read by a checkout stands for
ExpectedItem(o, row) ==
    [order_id |-> o, product_id |-> row.product_id, quantity |-> row.quantity,
     price |-> row.price]

\* C1: when N users holding one unit of product A each check out against a
\* stock S < N, exactly S calls succeed, N - S fail for insufficient stock
\* and the stock ends at 0.
C1_NoOversell ==
    (\A c \in Calls : calls[c].pc = "returned") =>
        LET S == products["A"].stock_quantity + decremented["A"] IN
        /\ Cardinality({c \in Calls : calls[c].outcome = "ok"}) = S
        /\ Cardinality({c \in Calls : calls[c].outcome = "insufficient_stock"})
             = Cardinality(Calls) - S
        /\ products["A"].stock_quantity = 0

\* C2: the stock_quantity of every product is never negative.
C2_StockNonNegative ==
    \A p \in Products : products[p].stock_quantity >= 0

\* C3: once a checkout that failed after its cart read has returned, no
\* orders row and no order_items row it created exists, and (nothing else
\* having run meanwhile) stock, cart and coupon usage are as it read them.
C3_FailureRollsBack ==
    \A c \in Calls :
        Returned(c, "storage_error") =>
            /\ calls[c].orderId \notin DOMAIN orders
            /\ ItemsOf(calls[c].orderId) = {}
            /\ calls[c].alone =>
                 /\ \A k \in DOMAIN calls[c].rows :
                      LET row == calls[c].rows[k] IN
                      /\ products[row.product_id].stock_quantity = row.stock_quantity
                      /\ cart[calls[c].userId][row.product_id] = row.quantity
                 /\ UsedCounts = calls[c].usedBefore

\* C4: in every state an orders row exists only together with all of its
\* order_items rows and the stock decrement of each of its lines, and stock
\* is decremented only by the quantities of existing order_items rows.
C4_NeverHalfApplied ==
    /\ \A c \in Calls :
         calls[c].orderId \in DOMAIN orders =>
            \A k \in DOMAIN calls[c].rows :
                ExpectedItem(calls[c].orderId, calls[c].rows[k]) \in order_items
    /\ \A o \in DOMAIN orders : ItemsOf(o) # {}
    /\ \A p \in Products :
         decremented[p] = ItemsQuantity({it \in order_items : it.product_id = p})

\* C5: a checkout whose cart read finds a line asking for more than the
\* product's stock fails with the insufficient-stock error in that very
\* step, which changes no stock, cart row, coupon, orders or order_items row.
C5_InsufficientStockAborts ==
    [][\A c \in Calls :
         ( /\ calls[c].pc = "idle"
           /\ calls'[c].pc # "idle"
           /\ \E p \in Products :
                /\ cart[calls'[c].userId][p] > 0
                /\ cart[calls'[c].userId][p] > products[p].stock_quantity )
         => /\ calls'[c].pc = "returned"
            /\ calls'[c].outcome = "insufficient_stock"
            /\ calls'[c].orderId = 0
            /\ UNCHANGED db]_vars

C5_Witness ==
    \E c \in Calls :
        /\ Returned(c, "insufficient_stock")
        /\ Len(calls[c].rows) = 2
        /\ \E k \in DOMAIN calls[c].rows : ~StockInsufficient(calls[c].rows[k])

\* C6: the total_amount of every order whose checkout returned successfully
\* equals the sum of price * quantity over the order's order_items rows (no
\* coupon can be supplied, so the discount is zero).
C6_TotalIsSumOfItems ==
    \A c \in Calls :
        Returned(c, "ok") =>
            /\ calls[c].orderId \in DOMAIN orders
            /\ orders[calls[c].orderId].total_amount
                 = ItemsTotal(ItemsOf(calls[c].orderId))

C6_Witness ==
    \E c \in Calls :
        /\ Returned(c, "ok")
        /\ Cardinality(ItemsOf(calls[c].orderId)) = 2
        /\ \E it \in ItemsOf(calls[c].orderId) :
             it.price # products[it.product_id].price

\* C7: when no checkout is under way and no catalog edit has happened, the
\* total decrement of each product's stock equals the summed quantity of the
\* order_items rows of that product.
C7_StockConservation ==
    ((\A c \in Calls : ~InProgress(c)) /\ env.edits = 0) =>
        \A p \in Products :
            /\ MaxStock - products[p].stock_quantity
                 = ItemsQuantity({it \in order_items : it.product_id = p})
            /\ decremented[p] = MaxStock - products[p].stock_quantity

\* C8: a checkout that ran alone on a non-empty cart with sufficient stock
\* on every line (and hit no failing statement) returns an order with
\* status and payment_status pending and the total of the prices it read,
\* with exactly one order_items row per cart line carrying the line's
\* product, quantity and read price; each product's stock is lower by the
\* ordered quantity and the user's cart is empty.
C8_CheckoutAlone ==
    \A c \in Calls :
        ( /\ calls[c].pc = "returned"
          /\ calls[c].alone
          /\ calls[c].outcome # "storage_error"
          /\ calls[c].rows # <<>>
          /\ \A k \in DOMAIN calls[c].rows :
               calls[c].rows[k].stock_quantity >= calls[c].rows[k].quantity )
        => LET o == calls[c].orderId
               rows == calls[c].rows
           IN /\ calls[c].outcome = "ok"
              /\ o = Len(orders)
              /\ orders[o].user_id = calls[c].userId
              /\ orders[o].status = "pending"
              /\ orders[o].payment_status = "pending"
              /\ orders[o].total_amount = ItemsTotal({ExpectedItem(o, rows[k]) : k \in DOMAIN rows})
              /\ ItemsOf(o) = {ExpectedItem(o, rows[k]) : k \in DOMAIN rows}
              /\ Cardinality(ItemsOf(o)) = Len(rows)
              /\ \A k \in DOMAIN rows :
                   products[rows[k].product_id].stock_quantity
                     = rows[k].stock_quantity - rows[k].quantity
              /\ cart[calls[c].userId] = NoRows

\* the scenario of the specification, scaled to the stock bound: cart
\* [{A, 10.00, 2}] gives total 20.00, item {A, 2, 10.00} and stock lower by 2
C8_Witness ==
    \E c \in Calls :
        /\ Returned(c, "ok")
        /\ calls[c].alone
        /\ Len(calls[c].rows) = 1
        /\ calls[c].rows[1].product_id = "A"
        /\ calls[c].rows[1].quantity = 2
        /\ orders[calls[c].orderId].total_amount = 2000
        /\ ItemsOf(calls[c].orderId) =
             {[order_id |-> calls[c].orderId, product_id |-> "A", quantity |-> 2,
               price |-> 1000]}
        /\ products["A"].stock_quantity = MaxStock - 2

\* C27: createOrderFromCart for a user with no cart rows fails with the
\* empty-cart error in its first step and creates no order row and no
\* order_items row and changes no stock, also when it responds.
C27_EmptyCartAborts ==
    [][\A c \in Calls :
          /\ (/\ calls[c].pc = "idle"
              /\ calls'[c].pc # "idle"
              /\ \A p \in Products : cart[calls'[c].userId][p] = 0)
                => /\ calls'[c].pc = "returned"
                   /\ calls'[c].outcome = "cart_empty"
                   /\ calls'[c].orderId = 0
                   /\ UNCHANGED <<products, cart, orders, order_items>>
          /\ (/\ Returned(c, "cart_empty")
              /\ calls'[c].pc # "returned")
                => /\ calls'[c] = IdleCall
                   /\ UNCHANGED <<products, cart, orders, order_items>>]_vars

\* a call has failed with the empty-cart error
C27_Witness ==
    \E c \in Calls :
       /\ Returned(c, "cart_empty")
       /\ \A p \in Products : cart[calls[c].userId][p] = 0

\* C26: when a line of the user's cart references a product whose
\* is_active flag is false at the time createOrderFromCart reads the cart,
\* the call fails with the product-unavailable error (and so creates no
\* order, no order item and no stock change).
C26_InactiveProductAborts ==
    [][\A c \in Calls :
          (/\ calls[c].pc = "idle"
           /\ calls'[c].pc # "idle"
           /\ \E p \in Products :
                 cart[calls'[c].userId][p] > 0 /\ ~products[p].is_active)
             => /\ calls'[c].pc = "returned"
                /\ calls'[c].outcome = "product_unavailable"]_vars

----------------------------------------------------------------------------
(* Properties of the payment orchestrator *)

\* request r is about to run the UPDATE of confirmPayment on a payment row
\* that an earlier confirmation has already marked succeeded, with the
\* processor reporting succeeded again
ConfirmsAgain(r) ==
    /\ pays[r].pc = "update_payment"
    /\ pays[r].op = "confirmPayment"
    /\ pays[r].piStatus = "succeeded"
    /\ PaymentsOfIntent(pays[r].intentId) # {}
    /\ \A k \in PaymentsOfIntent(pays[r].intentId) :
          payments[k].status = "succeeded"

\* C9: when confirmPayment runs again for an intent whose payment row is
\* already succeeded and the processor still reports succeeded, the second
\* call writes neither the payment row (its updated_at stays as it was)
\* nor the order row.
C9_SecondConfirmWritesNothing ==
    [][\A r \in Pays :
          (ConfirmsAgain(r) /\ pays'[r].pc = "update_order")
             => payments' = payments /\ orders' = orders]_vars

\* C10: under every interleaving of createPaymentIntent, confirmPayment
\* and refundPayment, the status of a payment row changes only from
\* pending to succeeded, from pending to failed, or from succeeded to
\* refunded.
C10_PaymentStatusMoves ==
    [][\A k \in DOMAIN payments :
          payments'[k].status # payments[k].status
             => <<payments[k].status, payments'[k].status>> \in
                   {<<"pending", "succeeded">>, <<"pending", "failed">>,
                    <<"succeeded", "refunded">>}]_vars

\* the processor statuses after which an intent no longer changes
TerminalIntentStatus == {"succeeded", "canceled"}

\* C11: when a confirmPayment call returns, the payment and its order
\* carry the processor status it read together: succeeded gives payment
\* succeeded and order paid; any other terminal status (canceled) gives
\* payment failed and order payment_status failed.
C11_ConfirmMapsBoth ==
    \A r \in Pays :
       (/\ pays[r].pc = "returned"
        /\ pays[r].op = "confirmPayment"
        /\ pays[r].outcome = "ok"
        /\ pays[r].piStatus = "canceled")
          => /\ payments[pays[r].paymentId].status = "failed"
             /\ orders[pays[r].orderId].payment_status = "failed"

\* C12: a confirmPayment call that read a non-terminal processor status
\* leaves the payment row (still pending) and the order row as they were.
C12_NoTerminalWithoutProcessor ==
    [][\A r \in Pays :
          (/\ pays[r].pc = "update_payment"
           /\ pays[r].op = "confirmPayment"
           /\ pays[r].piStatus \notin TerminalIntentStatus
           /\ pays'[r] # pays[r])
             => payments' = payments /\ orders' = orders]_vars

\* C13: in no state is a payment refunded while its order still shows
\* paid, or an order refunded while a payment of it that was refunded
\* shows succeeded.
C13_RefundAtomic ==
    \A k \in DOMAIN payments :
       /\ payments[k].status = "refunded"
            => orders[payments[k].order_id].payment_status # "paid"
       /\ (/\ orders[payments[k].order_id].payment_status = "refunded"
           /\ \E j \in DOMAIN refunds : refunds[j] = payments[k].payment_intent_id)
            => payments[k].status # "succeeded"

\* C14: every order has at most one payment row whose status is pending.
C14_OnePendingPayment ==
    \A o \in DOMAIN orders :
       Cardinality({k \in DOMAIN payments :
                       payments[k].order_id = o /\ payments[k].status = "pending"}) <= 1

\* request r takes a step
Steps(r) == pays'[r] # pays[r]

\* request r begins operation op in this step
Begins(r, op) == pays[r].pc = "idle" /\ pays'[r].op = op

\* C22: a createPaymentIntent for an order id that does not exist, or for
\* an order whose payment_status is paid, fails (not found / already
\* paid) in its first step and creates no payment row and no intent at
\* the processor; the stored state is unchanged, also when it responds.
C22_RejectedIntentCreatesNothing ==
    [][\A r \in Pays :
          /\ (/\ Begins(r, "createPaymentIntent")
              /\ pays'[r].orderId \notin DOMAIN orders)
                => /\ pays'[r].pc = "returned"
                   /\ pays'[r].outcome = "order_not_found"
                   /\ UNCHANGED <<orders, payments, intents, refunds>>
          /\ (/\ Begins(r, "createPaymentIntent")
              /\ pays'[r].orderId \in DOMAIN orders
              /\ orders[pays'[r].orderId].payment_status = "paid")
                => /\ pays'[r].pc = "returned"
                   /\ pays'[r].outcome = "already_paid"
                   /\ UNCHANGED <<orders, payments, intents, refunds>>
          /\ (/\ pays[r].pc = "returned"
              /\ pays[r].outcome \in {"order_not_found", "already_paid"}
              /\ Steps(r))
                => /\ pays'[r] = IdlePay
                   /\ UNCHANGED <<orders, payments, intents, refunds>>]_vars

\* one call has been rejected for a paid order and another for an order
\* id that does not exist
C22_Witness ==
    /\ \E r \in Pays :
          /\ pays[r].pc = "returned" /\ pays[r].outcome = "already_paid"
          /\ orders[pays[r].orderId].payment_status = "paid"
    /\ \E r \in Pays :
          /\ pays[r].pc = "returned" /\ pays[r].outcome = "order_not_found"
          /\ pays[r].orderId \notin DOMAIN orders

\* C23: a successful createPaymentIntent adds exactly one payments row,
\* pending, carrying the order id and the reference of the intent the
\* processor created for the call; no step of the call writes an order
\* row, and an order's payment_status becomes paid only in the order
\* update of a confirmPayment.
C23_IntentCreatesPendingRow ==
    [][/\ \A r \in Pays :
            ((Begins(r, "createPaymentIntent") \/ pays[r].op = "createPaymentIntent")
                /\ Steps(r))
               => /\ orders' = orders
                  /\ IF pays[r].pc = "insert_payment" /\ pays'[r].outcome = "ok"
                       THEN /\ Len(payments') = Len(payments) + 1
                            /\ SubSeq(payments', 1, Len(payments)) = payments
                            /\ payments'[Len(payments')].status = "pending"
                            /\ payments'[Len(payments')].order_id = pays[r].orderId
                            /\ payments'[Len(payments')].payment_intent_id
                                  = pays[r].intentId
                            /\ pays[r].intentId \in DOMAIN intents
                            /\ intents[pays[r].intentId].orderId = pays[r].orderId
                            /\ pays'[r].paymentId = Len(payments')
                       ELSE payments' = payments
       /\ \A o \in DOMAIN orders :
            (orders'[o].payment_status = "paid" /\ orders[o].payment_status # "paid")
               => \E r \in Pays :
                     /\ pays[r].op = "confirmPayment"
                     /\ pays[r].pc = "update_order"
                     /\ pays[r].orderId = o
                     /\ pays'[r].pc = "returned"]_vars

\* a createPaymentIntent has returned its pending row and the order is
\* still pending
C23_Witness ==
    \E r \in Pays :
       /\ pays[r].pc = "returned"
       /\ pays[r].op = "createPaymentIntent"
       /\ pays[r].outcome = "ok"
       /\ payments[pays[r].paymentId].status = "pending"
       /\ payments[pays[r].paymentId].payment_intent_id = pays[r].intentId
       /\ orders[pays[r].orderId].payment_status = "pending"

\* C24: a confirmPayment whose reference no payments row carries fails
\* with payment-not-found and changes no payments row and no order row,
\* whatever status the processor reported.
C24_UnknownReferenceChangesNothing ==
    [][\A r \in Pays :
          /\ (/\ pays[r].op = "confirmPayment"
              /\ pays[r].pc = "update_payment"
              /\ \A k \in DOMAIN payments :
                    payments[k].payment_intent_id # pays[r].intentId
              /\ Steps(r))
                => /\ pays'[r].pc = "returned"
                   /\ pays'[r].outcome \in {"payment_not_found", "call_failed"}
                   /\ UNCHANGED <<orders, payments>>
          /\ (/\ pays[r].pc = "returned"
              /\ pays[r].outcome = "payment_not_found"
              /\ Steps(r))
                => pays'[r] = IdlePay /\ UNCHANGED <<orders, payments>>]_vars

\* a confirmPayment has failed with payment-not-found for an intent the
\* processor reports succeeded, while another payment row exists
C24_Witness ==
    \E r \in Pays :
       /\ pays[r].pc = "returned"
       /\ pays[r].op = "confirmPayment"
       /\ pays[r].outcome = "payment_not_found"
       /\ pays[r].piStatus = "succeeded"
       /\ payments # <<>>

\* C25: a refundPayment for an unknown payment id or for a payment whose
\* status is not succeeded fails in its first step, issues no refund at
\* the processor and leaves the payment and order rows unchanged.
C25_NotRefundableChangesNothing ==
    [][\A r \in Pays :
          /\ (/\ Begins(r, "refundPayment")
              /\ pays'[r].paymentId \notin DOMAIN payments)
                => /\ pays'[r].pc = "returned"
                   /\ pays'[r].outcome = "payment_not_found"
                   /\ UNCHANGED <<orders, payments, intents, refunds>>
          /\ (/\ Begins(r, "refundPayment")
              /\ pays'[r].paymentId \in DOMAIN payments
              /\ payments[pays'[r].paymentId].status # "succeeded")
                => /\ pays'[r].pc = "returned"
                   /\ pays'[r].outcome = "not_refundable"
                   /\ UNCHANGED <<orders, payments, intents, refunds>>
          /\ (/\ pays[r].pc = "returned"
              /\ pays[r].op = "refundPayment"
              /\ pays[r].outcome \in {"payment_not_found", "not_refundable"}
              /\ Steps(r))
                => /\ pays'[r] = IdlePay
                   /\ UNCHANGED <<orders, payments, intents, refunds>>]_vars

\* a refund of an already refunded payment and a refund of a pending or
\* failed payment have both been rejected
C25_Witness ==
    /\ \E r \in Pays :
          /\ pays[r].pc = "returned" /\ pays[r].op = "refundPayment"
          /\ pays[r].outcome = "not_refundable"
          /\ payments[pays[r].paymentId].status = "refunded"
    /\ \E r \in Pays :
          /\ pays[r].pc = "returned" /\ pays[r].op = "refundPayment"
          /\ pays[r].outcome = "not_refundable"
          /\ payments[pays[r].paymentId].status \in {"pending", "failed"}

----------------------------------------------------------------------------
(* Properties of the coupon evaluator *)

\* C15: for every coupon whose usage_limit is set, used_count never
\* exceeds usage_limit, whatever the interleaving of the validations and
\* redemptions of concurrent requests.
C15_UsageLimitHolds ==
    \A code \in Codes :
       coupons[code].usage_limit # Null
          => coupons[code].used_count <= coupons[code].usage_limit

\* request r has validated a code for which getByCode returned a row
Validated(r) == redeems[r].pc # "idle" /\ redeems[r].rows # {}

\* the coupons row request r read
RowOf(r) == CHOOSE x \in redeems[r].rows : TRUE

\* C18: validateCoupon reports the first rule that fails, in a fixed
\* order: now outside [valid_from, valid_until] gives expired; otherwise a
\* set usage_limit with used_count >= usage_limit gives limit reached;
\* otherwise an order amount below min_purchase_amount gives below
\* minimum; otherwise the result is valid.  Every invalid result carries
\* discount 0.
C18_FirstFailingRuleWins ==
    \A r \in Redeems :
       Validated(r) =>
          LET row == RowOf(r)
              res == redeems[r].result
              outside == redeems[r].now < row.valid_from
                            \/ redeems[r].now > row.valid_until
              exhausted == row.usage_limit # Null
                              /\ row.used_count >= row.usage_limit
              below == redeems[r].orderAmount < ParseFloat(row.min_purchase_amount)
          IN /\ outside => ~res.valid /\ res.message = "expired"
             /\ (~outside /\ exhausted)
                   => ~res.valid /\ res.message = "limit_reached"
             /\ (~outside /\ ~exhausted /\ below)
                   => ~res.valid /\ res.message = "below_minimum"
             /\ (~outside /\ ~exhausted /\ ~below) => res.valid
             /\ ~res.valid => res.discount = 0

\* a validation of a coupon that is both past its window and exhausted
\* has answered expired
C18_Witness ==
    \E r \in Redeems :
       /\ Validated(r)
       /\ redeems[r].now > RowOf(r).valid_until
       /\ RowOf(r).usage_limit # Null
       /\ RowOf(r).used_count >= RowOf(r).usage_limit
       /\ redeems[r].result.message = "expired"

\* C19: the discount of a valid result never exceeds the order amount, so
\* the amount minus the discount is never negative.
C19_DiscountWithinSubtotal ==
    \A r \in Redeems :
       (Validated(r) /\ redeems[r].result.valid)
          => redeems[r].result.discount <= redeems[r].orderAmount

\* two doubles are equal up to the rounding of one operation
Near(x, y) == x - y \in FloatErr

\* C20: a valid percentage coupon gives order amount * discount_value / 100
\* when max_discount_amount is unset or not exceeded and
\* max_discount_amount otherwise; a valid fixed coupon gives discount_value.
C20_DiscountFormula ==
    \A r \in Redeems :
       (Validated(r) /\ redeems[r].result.valid) =>
          LET row == RowOf(r)
              discount == redeems[r].result.discount
              share == (redeems[r].orderAmount * row.discount_value) \div (100 * 100)
          IN IF row.discount_type = "fixed"
               THEN discount = ParseFloat(row.discount_value)
             ELSE IF row.max_discount_amount = Null
                     \/ share <= ParseFloat(row.max_discount_amount)
               THEN Near(discount, share)
             ELSE discount = ParseFloat(row.max_discount_amount)

\* a percentage coupon whose share of the amount exceeds its cap has been
\* answered with the cap, and a fixed coupon with its value
C20_Witness ==
    /\ \E r \in Redeems :
          /\ Validated(r) /\ redeems[r].result.valid
          /\ RowOf(r).discount_type = "percentage"
          /\ RowOf(r).max_discount_amount # Null
          /\ redeems[r].orderAmount = ParseFloat(2000)
          /\ redeems[r].result.discount = ParseFloat(100)
    /\ \E r \in Redeems :
          /\ Validated(r) /\ redeems[r].result.valid
          /\ RowOf(r).discount_type = "percentage"
          /\ redeems[r].orderAmount = ParseFloat(500)
          /\ Near(redeems[r].result.discount, ParseFloat(50))

\* C21: validateCoupon has no side effects: a validation, valid or not,
\* leaves every coupons row and every other stored row as it was, and
\* used_count changes only in the redemption step.
C21_ValidateWritesNothing ==
    [][/\ \A r \in Redeems :
            (redeems[r].pc = "idle" /\ redeems'[r].pc # "idle")
               => /\ coupons' = coupons
                  /\ UNCHANGED <<products, cart, orders, order_items, payments>>
       /\ coupons' # coupons
            => \E r \in Redeems :
                  redeems[r].pc = "apply" /\ redeems'[r].pc = "returned"]_vars

\* one validation has accepted a code and another has rejected one, and
\* used_count is still 0
C21_Witness ==
    /\ \E r \in Redeems : redeems[r].pc = "apply" /\ redeems[r].result.valid
    /\ \E r \in Redeems : redeems[r].pc = "returned" /\ ~redeems[r].result.valid
    /\ \A code \in Codes : coupons[code].used_count = 0

----------------------------------------------------------------------------
(* Properties of order requests that carry a coupon code *)

\* what the coupon evaluator says, inside the coupon's validity window,
\* about the code of call c's request and the subtotal of the cart it read
CouponVerdict(c) ==
    ValidateCoupon(GetByCode(requests[c].couponCode),
                   TotalAmount(calls[c].rows), ValidFrom, 0)

\* C16: when an order request carries a coupon code that the evaluator
\* accepts for the cart's subtotal, the order it creates has total_amount
\* equal to the subtotal minus the evaluator's discount (20.00 with the
\* 10 percent coupon gives 18.00).
C16_CouponDiscountApplied ==
    \A c \in Calls :
       (/\ Returned(c, "ok")
        /\ requests[c].couponCode # "none"
        /\ CouponVerdict(c).valid)
          => orders[calls[c].orderId].total_amount
               = ToDecimal2(TotalAmount(calls[c].rows) - CouponVerdict(c).discount)

\* C17: an order request that carries a coupon code the evaluator rejects
\* (unknown, inactive, expired, exhausted or below its minimum purchase)
\* creates no order, decrements no stock and does not clear the cart.
C17_InvalidCouponAborts ==
    \A c \in Calls :
       (/\ calls[c].pc # "idle"
        /\ requests[c].couponCode # "none"
        /\ ~CouponVerdict(c).valid)
          => /\ calls[c].orderId = 0
             /\ ~Returned(c, "ok")
             /\ calls[c].pc \notin {"insert_item", "update_stock", "delete_cart"}

----------------------------------------------------------------------------
(* Properties of carts, orders and their payments *)

\* the place of a status on the way pending, processing, shipped, delivered
StatusRank(status) ==
    CASE status = "pending" -> 1 [] status = "processing" -> 2
      [] status = "shipped" -> 3 [] status = "delivered" -> 4 [] OTHER -> 0

\* C31: an order's status only moves forward along pending, processing,
\* shipped, delivered, or to cancelled, never backward and never out of
\* cancelled; a request with a status outside the five values is rejected
\* and leaves the orders as they are.
C31_OrderStatusMovesForward ==
    [][/\ \A o \in DOMAIN orders :
             orders'[o].status # orders[o].status
                => /\ orders[o].status # "cancelled"
                   /\ \/ orders'[o].status = "cancelled"
                      \/ StatusRank(orders'[o].status) > StatusRank(orders[o].status)
       /\ statusReply.pc = "idle" /\ statusReply'.pc # "idle"
                                  /\ statusReply'.status \notin ValidStatuses
             => statusReply'.outcome = "invalid_status" /\ orders' = orders]_vars

\* C32 as stated: the total_amount of an existing order and the order_items
\* rows of existing orders never change, a step of updateOrderStatus changes
\* no column of an orders row but status, and a step of a payment request
\* changes no column but payment_status.
C32_OrderFrozenAsStated ==
    [][\A o \in DOMAIN orders :
          /\ orders'[o].total_amount = orders[o].total_amount
          /\ ItemsOf(o) \subseteq order_items'
          /\ statusReply' # statusReply
                => orders'[o] = [orders[o] EXCEPT !.status = orders'[o].status]
          /\ pays' # pays
                => orders'[o] = [orders[o] EXCEPT
                                   !.payment_status = orders'[o].payment_status]]_vars

\* C32: the total_amount and the buyer of an existing order and the
\* order_items rows of existing orders never change; a step of
\* updateOrderStatus changes no column of an orders row but status and
\* updated_at, and a step of a payment request changes no column but
\* payment_status and updated_at.
C32_OrderFrozen ==
    [][\A o \in DOMAIN orders :
          /\ orders'[o].total_amount = orders[o].total_amount
          /\ orders'[o].user_id = orders[o].user_id
          /\ ItemsOf(o) \subseteq order_items'
          /\ statusReply' # statusReply
                => orders'[o] = [orders[o] EXCEPT
                                   !.status = orders'[o].status,
                                   !.updated_at = orders'[o].updated_at]
          /\ pays' # pays
                => orders'[o] = [orders[o] EXCEPT
                                   !.payment_status = orders'[o].payment_status,
                                   !.updated_at = orders'[o].updated_at]]_vars

\* an order whose status the admin has moved and whose payment is
\* confirmed, after a price change of its product: total and items are
\* those of the checkout
C32_Witness ==
    /\ orders # <<>>
    /\ orders[1].status = "shipped"
    /\ orders[1].payment_status = "paid"
    /\ products["A"].price # 1000
    /\ orders[1].total_amount = 2000
    /\ \E it \in ItemsOf(1) : it.product_id = "A" /\ it.price = 1000

\* C33: when no addItem call is in progress, every cart row (the cart table
\* holds at most one per user and product) has the sum of the quantities of
\* the addItem calls for its user and product that returned, and there is
\* no row where no call returned.
C33_CartIsSumOfAdds ==
    (\A a \in Adds : adds[a].pc \in {"idle", "returned"})
       => \A u \in Users, p \in Products : cart[u][p] = added[u][p]

\* C34: when one user submits the same cart twice, at most one order is
\* created, and no product's stock is decremented by more than the quantity
\* that order's items hold.
C34_CartOrderedOnce ==
    /\ Len(orders) <= 1
    /\ \A p \in Products :
          decremented[p] <= ItemsQuantity({it \in ItemsOf(1) : it.product_id = p})

\* C35: every cart row that the cart-clear step of a checkout deletes is
\* represented by an order_items row of the order the checkout created,
\* with the same product and quantity.
C35_ClearedRowsWereOrdered ==
    [][\A c \in Calls :
          calls[c].pc = "delete_cart" /\ calls'[c].pc = "returned"
                                      /\ calls'[c].outcome = "ok"
             => \A p \in Products :
                   cart[calls[c].userId][p] > 0
                      => \E it \in ItemsOf(calls[c].orderId) :
                            /\ it.product_id = p
                            /\ it.quantity = cart[calls[c].userId][p]]_vars

\* C36: at any time an order has at most one payment with status
\* succeeded.
C36_ChargedAtMostOnce ==
    \A o \in DOMAIN orders :
       Cardinality({k \in DOMAIN payments :
                      payments[k].order_id = o /\ payments[k].status = "succeeded"}) <= 1

\* C37: refundPayment never invokes the processor's refund operation for a
\* payment whose intent the processor has already refunded, so the
\* operation is invoked at most once per payment.
C37_RefundInvokedOnce ==
    [][\A r \in Pays :
          pays[r].pc = "stripe_refund" /\ pays'[r].pc # "stripe_refund"
                                       /\ pays'[r].outcome # "call_failed"
             => \A k \in DOMAIN refunds : refunds[k] # pays[r].intentId]_vars

\* C38: the response to a GET /api/orders or GET /api/orders/:id request
\* of a user who is not an admin holds only orders of that user, whether
\* the handler built it or the response cache served it.
C38_OwnOrdersOnly ==
    \A g \in Gets :
       gets[g].pc = "returned" /\ gets[g].userId \notin Admins
          => \A o \in gets[g].body.ids : orders[o].user_id = gets[g].userId

\* C28: in every state where no payment operation is in progress (and no
\* statement of one has failed), an order's payment_status is paid if and
\* only if at least one of its payments has status succeeded.
C28_OrderAgreesWithPayments ==
    (env.faults = 0 /\ \A r \in Pays : pays[r].pc \in {"idle", "returned"})
       => \A o \in DOMAIN orders :
             orders[o].payment_status = "paid"
                <=> \E k \in DOMAIN payments :
                       payments[k].order_id = o /\ payments[k].status = "succeeded"

\* C29: every payments row carries an amount equal to the total_amount of
\* its order.
C29_PaymentAmountIsOrderTotal ==
    \A k \in DOMAIN payments :
       payments[k].amount = orders[payments[k].order_id].total_amount

\* C30: an order's payment_status changes only from pending to paid, from
\* pending to failed and from paid to refunded.
C30_OrderPaymentStatusMoves ==
    [][\A o \in DOMAIN orders :
          orders'[o].payment_status # orders[o].payment_status
             => <<orders[o].payment_status, orders'[o].payment_status>> \in
                   {<<"pending", "paid">>, <<"pending", "failed">>,
                    <<"paid", "refunded">>}]_vars

====
